---- MODULE Spec2Model ----
(***************************************************************************)
(* US Economic Dashboard: the data pipeline (load_economic_data), its      *)
(* 24 h cache, the chart renderer, the animation loop of the dual-axis     *)
(* variant and the year-range metrics of the static variant.               *)
(*                                                                         *)
(* Dates are month numbers counted from 1970-01 (every observation of the  *)
(* four series is dated on the first day of a month).  Numbers are exact   *)
(* rationals <<numerator, denominator>> with a positive denominator; the   *)
(* missing value (NaN) is <<0, 0>>.  Provider values are positive, so no   *)
(* division by zero occurs in pct_change.                                  *)
(***************************************************************************)
EXTENDS Integers, Sequences, FiniteSets, TLC

VARIABLES
    pc,               \* where the script (or the call) stands
    trend,            \* the provider's price series: <<level in 1970-01, monthly change>>
    response,         \* the frame web.DataReader returns
    data,             \* the observation table the script holds
    clock,            \* seconds since the process started
    cache,            \* st.cache_data entries of load_economic_data
    fetch_log,        \* the times of the outbound provider calls
    call_log,         \* per call of load_economic_data: time, whether it fetched, what it returned
    play_animation,   \* the value st.button returned in this script run
    animation_speed,  \* the value of the speed slider
    end_date,         \* the end_date argument of the last create_animated_chart call
    chart,            \* the figure shown in chart_placeholder
    metrics,          \* what the four metric placeholders show
    dates,            \* the quarterly date sequence of the running animation
    step,             \* the animation stride
    i,                \* the number of frames the loop has executed
    frame_log,        \* the frames rendered in this run: date and the chart shown
    progress_log,     \* every value written to the progress bar in this run
    complete,         \* st.success("Animation complete!") was shown in this run
    now_year,         \* datetime.datetime.now().year
    year_range,       \* the value of the year-range slider
    filtered_data,    \* the rows the year-range filter kept
    raised            \* the exception that ended the script run, "" when none

vars == <<pc, trend, response, data, clock, cache, fetch_log, call_log,
          play_animation, animation_speed, end_date, chart, metrics, dates, step,
          i, frame_log, progress_log, complete, now_year, year_range,
          filtered_data, raised>>

loadVars == <<trend, response, data>>
cacheVars == <<clock, cache, fetch_log, call_log>>
animVars == <<play_animation, animation_speed, end_date, chart, metrics, dates,
              step, i, frame_log, progress_log, complete>>
staticVars == <<now_year, year_range, filtered_data>>

(***************************************************************************)
(* Bounds of the model.                                                    *)
(***************************************************************************)
MaxRows == 14
GapRows == 3
MaxGaps == 2

(***************************************************************************)
(* Numbers.                                                                *)
(***************************************************************************)
NaN == <<0, 0>>

isna(x) == x[2] = 0

\* a / b of two series elements; NaN propagates
truediv(a, b) ==
    IF isna(a) \/ isna(b) THEN NaN ELSE <<a[1] * b[2], a[2] * b[1]>>

\* a - k for an integer k
sub(a, k) ==
    IF isna(a) THEN NaN ELSE <<a[1] - k * a[2], a[2]>>

\* a * k for an integer k
mul(a, k) ==
    IF isna(a) THEN NaN ELSE <<a[1] * k, a[2]>>

\* equality of two numbers as numbers; NaN equals nothing
eq(a, b) ==
    ~isna(a) /\ ~isna(b) /\ a[1] * b[2] = b[1] * a[2]

(***************************************************************************)
(* The data pipeline.  A frame is [columns, rows]; a row is [date, cells], *)
(* its cells in the order of the frame's columns.                          *)
(***************************************************************************)
IndicatorValues == <<"GFDEBTN", "FEDFUNDS", "GDP", "CPIAUCSL">>

IndicatorKeys == <<"National Debt", "Fed Funds Rate", "GDP", "Inflation">>

Periods == 12

Hundred == 100

ColIdx(df, name) == CHOOSE k \in 1..Len(df.columns) : df.columns[k] = name

\* df[name]: one column as a series
Col(df, name) == [r \in 1..Len(df.rows) |-> df.rows[r].cells[ColIdx(df, name)]]

\* df[name] = s
SetCol(df, name, s) ==
    [df EXCEPT !.rows =
        [r \in 1..Len(df.rows) |->
            [df.rows[r] EXCEPT !.cells[ColIdx(df, name)] = s[r]]]]

\* the last valid value of column k at or before row r
LastValid(rows, k, r) ==
    LET valid == {j \in 1..r : ~isna(rows[j].cells[k])}
    IN  IF valid = {} THEN NaN
        ELSE rows[CHOOSE j \in valid : \A j2 \in valid : j2 <= j].cells[k]

ffill(df) ==
    [df EXCEPT !.rows =
        [r \in 1..Len(df.rows) |->
            [df.rows[r] EXCEPT !.cells =
                [k \in 1..Len(df.columns) |-> LastValid(df.rows, k, r)]]]]

HasNa(row) == \E k \in 1..Len(row.cells) : isna(row.cells[k])

dropna_keepall(df) == df

dropna(df) == [df EXCEPT !.rows = SelectSeq(df.rows, LAMBDA row : ~HasNa(row))]

shift(s, periods) ==
    [t \in 1..Len(s) |-> IF t > periods THEN s[t - periods] ELSE NaN]

pct_change_lag1(s, periods) ==
    [t \in 1..Len(s) |-> sub(truediv(s[t], shift(s, 1)[t]), 1)]

\* Series.pct_change(periods): s / s.shift(periods) - 1
pct_change(s, periods) ==
    [t \in 1..Len(s) |-> sub(truediv(s[t], shift(s, periods)[t]), 1)]

\* the body of load_economic_data, given the frame the provider returned
load_economic_data(resp) ==
    LET cleaned == dropna(ffill(resp))
        named == [cleaned EXCEPT !.columns = IndicatorKeys]
        yoy == pct_change(Col(named, "Inflation"), Periods)
    IN  SetCol(named, "Inflation", [t \in 1..Len(yoy) |-> mul(yoy[t], Hundred)])

(***************************************************************************)
(* The provider.  One row per month from 1970-01 on; a cell is a value or  *)
(* missing (at most MaxGaps cells, all within the first GapRows rows).     *)
(* The values are fixed functions of the month, the price level follows    *)
(* the trend chosen at the start.                                          *)
(***************************************************************************)
PriceTrends == {<<100, 0>>, <<100, 5>>, <<300, -4>>}

SeriesValue(id, m, tr) ==
    CASE id = "GFDEBTN" -> <<370000 + 1500 * m, 1>>
      [] id = "FEDFUNDS" -> <<525 + 7 * m, 100>>
      [] id = "GDP" -> <<2101 + 33 * m, 2>>
      [] OTHER -> <<tr[1] + tr[2] * m, 1>>

EmptyFrame(cols) == [columns |-> cols, rows |-> <<>>]

ProviderRowOf(m, gaps, tr) ==
    [date |-> m,
     cells |-> [k \in 1..Len(IndicatorValues) |->
                   IF k \in gaps THEN NaN ELSE SeriesValue(IndicatorValues[k], m, tr)]]

NumGaps(df) ==
    Cardinality({<<r, k>> \in (1..Len(df.rows)) \X (1..Len(df.columns)) :
                    isna(df.rows[r].cells[k])})

(***************************************************************************)
(* Values of the variables a specification does not use.                   *)
(***************************************************************************)
NoFrame == EmptyFrame(<<>>)

NoChart == [data |-> <<>>, shapes |-> <<>>]

NoMetrics == <<>>

CacheIdle ==
    /\ clock = 0
    /\ cache = <<>>
    /\ fetch_log = <<>>
    /\ call_log = <<>>

AnimIdle ==
    /\ play_animation = FALSE
    /\ animation_speed = 0
    /\ end_date = 0
    /\ chart = NoChart
    /\ metrics = NoMetrics
    /\ dates = <<>>
    /\ step = 0
    /\ i = 0
    /\ frame_log = <<>>
    /\ progress_log = <<>>
    /\ complete = FALSE

StaticIdle ==
    /\ now_year = 0
    /\ year_range = <<0, 0>>
    /\ filtered_data = NoFrame

(***************************************************************************)
(* load_economic_data on any provider response.                            *)
(***************************************************************************)
LoadInit ==
    /\ pc = "request"
    /\ trend \in PriceTrends
    /\ response = EmptyFrame(IndicatorValues)
    /\ data = NoFrame
    /\ raised = ""
    /\ CacheIdle /\ AnimIdle /\ StaticIdle

\* the provider adds the next month's row to the frame it will return
ProviderRow ==
    /\ pc = "request"
    /\ Len(response.rows) < MaxRows
    /\ \E gaps \in SUBSET (1..Len(IndicatorValues)) :
          /\ gaps # {} => Len(response.rows) < GapRows
          /\ NumGaps(response) + Cardinality(gaps) <= MaxGaps
          /\ response' = [response EXCEPT !.rows =
                             Append(@, ProviderRowOf(Len(@), gaps, trend))]
    /\ UNCHANGED <<pc, trend, data, raised, cacheVars, animVars, staticVars>>

\* web.DataReader returns; the rest of load_economic_data runs
LoadEconomicData ==
    /\ pc = "request"
    /\ data' = load_economic_data(response)
    /\ pc' = "loaded"
    /\ UNCHANGED <<trend, response, raised, cacheVars, animVars, staticVars>>

LoadNext == ProviderRow \/ LoadEconomicData

LoadSpec == LoadInit /\ [][LoadNext]_vars

StrictlyIncreasingDates(df) ==
    \A r \in 1..(Len(df.rows) - 1) : df.rows[r].date < df.rows[r + 1].date

\* the price-index column after forward-fill and row dropping
RawPrice == Col(dropna(ffill(response)), "CPIAUCSL")

\* C3 as stated: the table load_economic_data returns has strictly increasing
\* dates and no missing cell in any of its 4 columns.
C3_NoMissingCell ==
    pc = "loaded" =>
        /\ StrictlyIncreasingDates(data)
        /\ \A r \in 1..Len(data.rows) : ~HasNa(data.rows[r])

\* C3 as amended: the table load_economic_data returns has strictly increasing
\* dates, no missing cell in National Debt, Fed Funds Rate and GDP, and its
\* Inflation cell is missing in exactly the first 12 rows.
C3_NoMissingCellButInflationHead ==
    pc = "loaded" =>
        /\ StrictlyIncreasingDates(data)
        /\ \A r \in 1..Len(data.rows) :
              /\ \A name \in {"National Debt", "Fed Funds Rate", "GDP"} :
                    ~isna(Col(data, name)[r])
              /\ isna(Col(data, "Inflation")[r]) <=> r <= Periods

\* a response with a gap that was filled and a row that was dropped, loaded
\* into a table longer than 12 rows
C3_Witness ==
    /\ pc = "loaded"
    /\ Len(data.rows) > Periods
    /\ Len(data.rows) < Len(response.rows)
    /\ \E r \in 1..Len(data.rows) :
          HasNa(response.rows[data.rows[r].date + 1])

\* C7: in a table of at least 13 rows, Inflation[t] = (raw[t] / raw[t-12] - 1) * 100
\* for every row index t >= 12 (counted from 0), Inflation is missing for t < 12,
\* and the rows with t < 12 stay in the table.
C7_InflationYoY ==
    (pc = "loaded" /\ Len(data.rows) >= 13) =>
        LET raw == RawPrice
            infl == Col(data, "Inflation")
        IN  /\ Len(infl) = Len(raw)
            /\ \A t \in 1..Len(infl) :
                  IF t > 12
                  THEN LET a == raw[t]
                           b == raw[t - 12]
                       IN  eq(infl[t],
                              <<(a[1] * b[2] - b[1] * a[2]) * 100, a[2] * b[1]>>)
                  ELSE isna(infl[t])

\* a table of at least 13 rows whose price level moved over the 12 periods,
\* built from a response that lost its first row
C7_Witness ==
    /\ pc = "loaded"
    /\ Len(data.rows) >= 13
    /\ data.rows[1].date > 0
    /\ ~eq(RawPrice[Len(data.rows)], RawPrice[Len(data.rows) - 12])
    /\ ~eq(Col(data, "Inflation")[Len(data.rows)], <<0, 1>>)

(***************************************************************************)
(* The chart renderer and the metric display of the animated variant.      *)
(***************************************************************************)
None == -1

index(df) == [r \in 1..Len(df.rows) |-> df.rows[r].date]

\* the 7 recession bands: (start, end) as month numbers
recessions ==
    << <<46, 62>>, <<120, 126>>, <<138, 154>>, <<246, 254>>,
       <<374, 382>>, <<455, 473>>, <<601, 603>> >>

Scatter(df, name, yaxis) ==
    [name |-> name, x |-> index(df), y |-> Col(df, name), yaxis |-> yaxis]

\* the value of the local end_date once create_animated_chart has defaulted it
ResolveEndDate(df, ed) ==
    IF ed = None THEN df.rows[Len(df.rows)].date ELSE ed

\* the figure create_animated_chart(df, ed) returns
create_animated_chart(df, ed) ==
    [data |-> << Scatter(df, "National Debt", "y1"),
                 Scatter(df, "GDP", "y1"),
                 Scatter(df, "Fed Funds Rate", "y2"),
                 Scatter(df, "Inflation", "y2") >>,
     shapes |-> recessions]

\* n / d rounded to the nearest integer, ties to even (d > 0)
RoundHalfEven(n, d) ==
    LET q == n \div d
        r == n % d
    IN  IF 2 * r < d THEN q
        ELSE IF 2 * r > d THEN q + 1
        ELSE IF q % 2 = 0 THEN q ELSE q + 1

Pow10(k) == IF k = 0 THEN 1 ELSE 100

\* format(x, ".<digits>f"): the number shown, in units of 10^-digits, or nan
FormatF(x, digits) ==
    IF isna(x) THEN [nan |-> TRUE, shown |-> 0, digits |-> digits]
    ELSE [nan |-> FALSE, shown |-> RoundHalfEven(x[1] * Pow10(digits), x[2]),
          digits |-> digits]

Cell(df, row, name) == row.cells[ColIdx(df, name)]

\* the four metric(label, text) calls of the animated variant for one row
ShowMetrics(df, row) ==
    << [label |-> "National Debt", text |-> FormatF(Cell(df, row, "National Debt"), 0)],
       [label |-> "Fed Rate", text |-> FormatF(Cell(df, row, "Fed Funds Rate"), 2)],
       [label |-> "GDP", text |-> FormatF(Cell(df, row, "GDP"), 0)],
       [label |-> "Inflation", text |-> FormatF(Cell(df, row, "Inflation"), 2)] >>

\* rows[-1] taken wrongly from the front
iloc_first(rows) == rows[1]

\* .iloc[-1]
iloc_last(rows) == rows[Len(rows)]

\* data[data.index < date]: the comparison made strict
rows_before(df, date) == SelectSeq(df.rows, LAMBDA row : row.date < date)

\* data[data.index <= date]
rows_upto(df, date) == SelectSeq(df.rows, LAMBDA row : row.date <= date)

(***************************************************************************)
(* The animation stepper.                                                  *)
(***************************************************************************)
SpeedMin == 1
SpeedMax == 10
SpeedDefault == 5
FramesPerSpeed == 50

Max(a, b) == IF a >= b THEN a ELSE b

Min(a, b) == IF a <= b THEN a ELSE b

\* pd.date_range(start, end, freq='QS'): the quarter starts within [start, end]
date_range(start, end) ==
    LET first == start + ((3 - (start % 3)) % 3)
        n == IF first > end THEN 0 ELSE ((end - first) \div 3) + 1
    IN  [k \in 1..n |-> first + 3 * (k - 1)]

\* step = max(1, len(dates) // (50 * animation_speed))
Step(n, speed) == Max(1, n \div (FramesPerSpeed * speed))

\* dates[1::step]: the slice started one place late
Slice_from1(s, st) ==
    [k \in 1..(((Len(s) - 1) + st - 1) \div st) |-> s[(k - 1) * st + 2]]

\* dates[::step]
Slice(s, st) ==
    [k \in 1..((Len(s) + st - 1) \div st) |-> s[(k - 1) * st + 1]]

\* progress counted down from 100
Progress_remaining(i0, st, n) ==
    Hundred - Min(Hundred, (i0 * st * Hundred) \div n)

\* progress = min(100, int((i * step) / len(dates) * 100))
Progress(i0, st, n) ==
    Min(Hundred, (i0 * st * Hundred) \div n)

\* current_date = data.index[0] + timedelta(days=365*5): 1825 days after the first
\* of a month lies within the 59th month after it
InitialCutoff(df) == df.rows[1].date + 59

(***************************************************************************)
(* The tables the animated variant is run on: load_economic_data of a      *)
(* provider response without gaps, over the months first..last less holes. *)
(***************************************************************************)
MaxFirst == 2
MaxSmallSpan == 7
MaxMonths == 302

Holes == {{}, {3}, {6, 7}}

TableShapes ==
    [first : 0..MaxFirst, span : 0..MaxSmallSpan, holes : Holes, every : {1}]
      \cup [first : {0}, span : {MaxMonths - 5}, holes : {{}}, every : {1}]
      \cup [first : {0}, span : {MaxMonths - 6, MaxMonths}, holes : {{}}, every : {3}]
      \cup [first : {1}, span : {-1}, holes : {{}}, every : {1}]

\* the frame the provider returns for a shape: a row for every month of
\* first..first+span that is no hole and is a multiple of `every`, no cell missing
FredResponse(shape, tr) ==
    LET months == SelectSeq([k \in 1..(shape.span + 1) |-> shape.first + k - 1],
                            LAMBDA m : m \notin shape.holes /\ m % shape.every = 0)
    IN  [columns |-> IndicatorValues,
         rows |-> [r \in 1..Len(months) |-> ProviderRowOf(months[r], {}, tr)]]

\* one run of the script without a click on the play button (lines 46-158)
RunToControls(speed) ==
    /\ play_animation' = FALSE
    /\ animation_speed' = speed
    /\ end_date' = ResolveEndDate(data, InitialCutoff(data))
    /\ chart' = create_animated_chart(data, InitialCutoff(data))
    /\ metrics' = NoMetrics
    /\ dates' = <<>>
    /\ step' = 0
    /\ i' = 0
    /\ frame_log' = <<>>
    /\ progress_log' = <<>>
    /\ complete' = FALSE

AnimInit ==
    /\ trend = <<100, 5>>
    /\ response = NoFrame
    /\ \E shape \in TableShapes : data = load_economic_data(FredResponse(shape, trend))
    /\ CacheIdle /\ StaticIdle
    /\ IF Len(data.rows) = 0
       THEN /\ pc = "failed"
            /\ raised = "IndexError"
            /\ AnimIdle
       ELSE /\ pc = "idle"
            /\ raised = ""
            /\ play_animation = FALSE
            /\ animation_speed = SpeedDefault
            /\ end_date = ResolveEndDate(data, InitialCutoff(data))
            /\ chart = create_animated_chart(data, InitialCutoff(data))
            /\ metrics = NoMetrics
            /\ dates = <<>>
            /\ step = 0
            /\ i = 0
            /\ frame_log = <<>>
            /\ progress_log = <<>>
            /\ complete = FALSE

\* the user moves the speed slider: the script runs again, the button not clicked
SetSpeed ==
    /\ pc \in {"idle", "completed"}
    /\ \E speed \in SpeedMin..SpeedMax :
          /\ speed # animation_speed
          /\ RunToControls(speed)
    /\ pc' = "idle"
    /\ UNCHANGED <<raised, loadVars, cacheVars, staticVars>>

\* the user clicks the play button: the script runs again up to the loop (lines 46-173)
Play ==
    /\ pc \in {"idle", "completed"}
    /\ play_animation' = TRUE
    /\ end_date' = ResolveEndDate(data, InitialCutoff(data))
    /\ chart' = create_animated_chart(data, InitialCutoff(data))
    /\ metrics' = NoMetrics
    /\ dates' = date_range(data.rows[1].date, data.rows[Len(data.rows)].date)
    /\ step' = Step(Len(dates'), animation_speed)
    /\ progress_log' = <<0>>
    /\ i' = 0
    /\ frame_log' = <<>>
    /\ complete' = FALSE
    /\ pc' = "running"
    /\ UNCHANGED <<animation_speed, raised, loadVars, cacheVars, staticVars>>

\* one pass of the loop body (lines 176-201)
Frame ==
    /\ pc = "running"
    /\ i < Len(Slice(dates, step))
    /\ LET date == Slice(dates, step)[i + 1]
           upto == rows_upto(data, date)
       IN  /\ end_date' = ResolveEndDate(data, date)
           /\ chart' = create_animated_chart(data, date)
           /\ frame_log' = Append(frame_log, date)
           /\ IF Len(upto) = 0
              THEN /\ raised' = "IndexError"
                   /\ pc' = "failed"
                   /\ UNCHANGED <<metrics, progress_log, i>>
              ELSE /\ metrics' = ShowMetrics(data, iloc_last(upto))
                   /\ progress_log' = Append(progress_log, Progress(i, step, Len(dates)))
                   /\ i' = i + 1
                   /\ UNCHANGED <<raised, pc>>
    /\ UNCHANGED <<play_animation, animation_speed, dates, step, complete,
                   loadVars, cacheVars, staticVars>>

\* the loop is exhausted: the final state is shown (lines 203-224)
Finish ==
    /\ pc = "running"
    /\ i >= Len(Slice(dates, step))
    /\ end_date' = ResolveEndDate(data, None)
    /\ chart' = create_animated_chart(data, None)
    /\ metrics' = ShowMetrics(data, iloc_last(data.rows))
    /\ progress_log' = Append(progress_log, Hundred)
    /\ complete' = TRUE
    /\ pc' = "completed"
    /\ UNCHANGED <<play_animation, animation_speed, dates, step, i, frame_log,
                   raised, loadVars, cacheVars, staticVars>>

AnimNext == SetSpeed \/ Play \/ Frame \/ Finish

AnimSpec == AnimInit /\ [][AnimNext]_vars

\* the loop runs synchronously: a frame that can run does, and so does the end
AnimFairSpec == AnimSpec /\ WF_vars(Frame) /\ WF_vars(Finish)

\* C1: each of the 4 traces of the chart create_animated_chart(data, end_date)
\* returns holds exactly the rows of the table dated on or before the cutoff, and
\* no later row.
C1_TracesTruncatedAtCutoff ==
    pc \in {"idle", "running", "completed"} =>
        LET kept == rows_upto(data, end_date)
        IN  \A k \in 1..Len(chart.data) :
               /\ Len(chart.data[k].x) = Len(kept)
               /\ \A r \in 1..Len(kept) :
                     /\ chart.data[k].x[r] = kept[r].date
                     /\ chart.data[k].y[r] = Cell(data, kept[r], chart.data[k].name)

\* C4: the values written to the progress indicator in one run (the initial 0,
\* one per frame, the final value) never decrease, lie in 0..100, and the last
\* one written is exactly 100.
C4_ProgressMonotone ==
    /\ \A k \in 1..Len(progress_log) : progress_log[k] \in 0..100
    /\ \A k \in 1..(Len(progress_log) - 1) : progress_log[k] <= progress_log[k + 1]
    /\ pc = "running" => (Len(progress_log) = i + 1 /\ progress_log[1] = 0)
    /\ pc = "completed" =>
          /\ Len(progress_log) = Len(frame_log) + 2
          /\ progress_log[1] = 0
          /\ progress_log[Len(progress_log)] = 100

\* a completed run of stride 2 whose progress passed through values strictly
\* between 0 and 100
C4_Witness ==
    /\ pc = "completed"
    /\ step = 2
    /\ Len(frame_log) > 50
    /\ \E k \in 1..Len(progress_log) : progress_log[k] > 0 /\ progress_log[k] < 100

FullChartShown ==
    \A k \in 1..Len(chart.data) :
        /\ chart.data[k].x = index(data)
        /\ chart.data[k].y = Col(data, chart.data[k].name)

\* C5: once play is triggered the animation reaches Completed; in Completed the
\* chart is the untruncated render of the full table, the 4 metrics are those of
\* the table's last row, progress is 100 and completion has been signalled; when
\* play is not triggered no frame is rendered and completion is not signalled.
C5_RunsToCompletion ==
    /\ (pc = "running") ~> (pc = "completed")
    /\ [](pc = "completed" =>
             /\ Len(chart.data) = 4
             /\ FullChartShown
             /\ metrics = ShowMetrics(data, data.rows[Len(data.rows)])
             /\ progress_log[Len(progress_log)] = 100
             /\ complete)
    /\ [](~play_animation => (frame_log = <<>> /\ ~complete /\ pc # "running"))

\* a run of several frames at the highest speed that has completed
C5_Witness ==
    /\ pc = "completed"
    /\ complete
    /\ animation_speed = SpeedMax
    /\ Len(frame_log) >= 2
    /\ Len(data.rows) > Len(frame_log)

\* C6: the run at a higher speed renders no more frames than the run at any
\* lower speed over the same table.
C6_FramesNonIncreasingInSpeed ==
    pc = "completed" =>
        \A s \in SpeedMin..SpeedMax :
            s < animation_speed =>
                Len(frame_log) <= Len(Slice(dates, Step(Len(dates), s)))

\* C9: the stride is max(1, floor(n / (50 * speed))), at least 1, and the frames
\* rendered are the quarterly dates at indices 0, stride, 2*stride, ... below n, in
\* ascending order, each once.
C9_StrideAndFrames ==
    pc \in {"running", "completed"} =>
        LET n == Len(dates)
            q == n \div (50 * animation_speed)
        IN  /\ step = (IF q > 1 THEN q ELSE 1)
            /\ step >= 1
            /\ \A k \in 1..n :
                  /\ dates[k] % 3 = 0
                  /\ k < n => dates[k + 1] = dates[k] + 3
            /\ Len(frame_log) = i
            /\ \A k \in 1..Len(frame_log) :
                  /\ (k - 1) * step < n
                  /\ frame_log[k] = dates[(k - 1) * step + 1]
            /\ pc = "completed" =>
                  \A j \in 0..(n - 1) :
                      j % step = 0 =>
                          Cardinality({k \in 1..Len(frame_log) :
                                          frame_log[k] = dates[j + 1]}) = 1

\* a completed run of stride 2 over an odd number of quarterly dates
C9_Witness ==
    /\ pc = "completed"
    /\ step = 2
    /\ Len(dates) % 2 = 1
    /\ Len(frame_log) = (Len(dates) + 1) \div 2

\* C10: at every frame some observation is dated on or before the frame's date,
\* and the 4 metrics shown are those of the row with the greatest such date.
C10_MetricsAsOfFrame ==
    /\ Len(frame_log) > 0 => raised = ""
    /\ (pc = "running" /\ i > 0) =>
          LET fd == frame_log[i]
              on == {r \in 1..Len(data.rows) : data.rows[r].date <= fd}
          IN  /\ on # {}
              /\ \E r \in on :
                    /\ \A r2 \in on : data.rows[r2].date <= data.rows[r].date
                    /\ metrics = ShowMetrics(data, data.rows[r])

\* a frame whose date is not an observation date: the metrics are those of an
\* earlier row, and later rows exist
C10_Witness ==
    /\ pc = "running"
    /\ i > 0
    /\ \A r \in 1..Len(data.rows) : data.rows[r].date # frame_log[i]
    /\ \E r \in 1..Len(data.rows) : data.rows[r].date > frame_log[i]
    /\ metrics # NoMetrics

(***************************************************************************)
(* The static variant: the chart of the whole table, the year-range        *)
(* slider and the four metrics of the filtered rows.                       *)
(***************************************************************************)
BaseYear == 1970
MaxStaticSpan == 26

\* data.index.year
year(m) == BaseYear + (m \div 12)

\* the figure create_combined_chart(df) returns
create_combined_chart(df) ==
    [data |-> << Scatter(df, "National Debt", "y1"),
                 Scatter(df, "GDP", "y1"),
                 Scatter(df, "Fed Funds Rate", "y2"),
                 Scatter(df, "Inflation", "y2") >>,
     shapes |-> recessions]

\* data[(data.index.year >= lo) & (data.index.year <= hi)]
filter_years(df, lo, hi) ==
    [df EXCEPT !.rows =
        SelectSeq(df.rows, LAMBDA row : year(row.date) >= lo /\ year(row.date) <= hi)]

\* the four st.metric calls of the static variant for the last filtered row
ShowStaticMetrics(df, row) ==
    << [label |-> "Current National Debt",
        text |-> FormatF(Cell(df, row, "National Debt"), 0)],
       [label |-> "Current Fed Rate",
        text |-> FormatF(Cell(df, row, "Fed Funds Rate"), 2)],
       [label |-> "Current GDP", text |-> FormatF(Cell(df, row, "GDP"), 0)],
       [label |-> "Current Inflation",
        text |-> FormatF(Cell(df, row, "Inflation"), 2)] >>

StaticShapes ==
    [first : {0, 13}, span : 0..MaxStaticSpan, holes : {{}}, every : {1}]

\* lines 128-165 of the static script for one value of the slider
StaticRun(range) ==
    LET kept == filter_years(data, range[1], range[2])
    IN  /\ year_range' = range
        /\ chart' = create_combined_chart(data)
        /\ filtered_data' = kept
        /\ IF Len(kept.rows) = 0
           THEN /\ raised' = "IndexError"
                /\ metrics' = NoMetrics
                /\ pc' = "failed"
           ELSE /\ raised' = ""
                /\ metrics' = ShowStaticMetrics(kept, iloc_last(kept.rows))
                /\ pc' = "shown"

StaticInit ==
    /\ trend = <<100, 5>>
    /\ response = NoFrame
    /\ \E shape \in StaticShapes : data = load_economic_data(FredResponse(shape, trend))
    /\ now_year \in {year(data.rows[Len(data.rows)].date),
                     year(data.rows[Len(data.rows)].date) + 1}
    /\ year_range = <<BaseYear, now_year>>
    /\ filtered_data = filter_years(data, BaseYear, now_year)
    /\ chart = create_combined_chart(data)
    /\ metrics = ShowStaticMetrics(filtered_data, iloc_last(filtered_data.rows))
    /\ pc = "shown"
    /\ raised = ""
    /\ CacheIdle
    /\ play_animation = FALSE
    /\ animation_speed = 0
    /\ end_date = 0
    /\ dates = <<>>
    /\ step = 0
    /\ i = 0
    /\ frame_log = <<>>
    /\ progress_log = <<>>
    /\ complete = FALSE

\* the user moves the year-range slider: the script runs again
SlideYearRange ==
    /\ \E lo \in BaseYear..now_year, hi \in BaseYear..now_year :
          /\ lo <= hi
          /\ <<lo, hi>> # year_range
          /\ StaticRun(<<lo, hi>>)
    /\ UNCHANGED <<now_year, loadVars, cacheVars, play_animation, animation_speed,
                   end_date, dates, step, i, frame_log, progress_log, complete>>

StaticNext == SlideYearRange

StaticSpec == StaticInit /\ [][StaticNext]_vars

\* C2: for every year range the slider can produce the metric display completes
\* without raising; a range that selects zero rows gives an empty display.
C2_MetricsNeverRaise ==
    /\ raised = ""
    /\ Len(filtered_data.rows) = 0 => (pc = "shown" /\ metrics = NoMetrics)

(***************************************************************************)
(* The cache of load_economic_data: st.cache_data(ttl=24*3600).            *)
(***************************************************************************)
TTL == 24 * 3600
MaxCalls == 4

\* the time that passes between two calls
Delays == {0, 1, TTL \div 2, TTL - 1, TTL}

\* the tables the provider can yield at a fetch
CacheSpans == {2, 3}

\* the entry outlives its ttl by one tick
CacheExpired_late(entry, t) == t > entry.expires

\* an entry is served while the clock is before its expiry time
CacheExpired(entry, t) == t >= entry.expires

\* the cache holds no entry that can be served at time t
CacheMiss(t) == IF Len(cache) = 0 THEN TRUE ELSE CacheExpired(cache[1], t)

CacheInit ==
    /\ pc = "serving"
    /\ trend = <<100, 5>>
    /\ response = NoFrame
    /\ data = NoFrame
    /\ raised = ""
    /\ clock = 0
    /\ cache = <<>>
    /\ fetch_log = <<>>
    /\ call_log = <<>>
    /\ AnimIdle /\ StaticIdle

\* load_economic_data() is called and the cached table is returned
CallHit ==
    /\ Len(call_log) < MaxCalls
    /\ \E d \in Delays :
          /\ clock' = clock + d
          /\ ~CacheMiss(clock')
          /\ data' = cache[1].value
          /\ call_log' = Append(call_log,
                [at |-> clock', fetched |-> FALSE, ok |-> TRUE, value |-> cache[1].value])
    /\ raised' = ""
    /\ UNCHANGED <<pc, trend, response, cache, fetch_log, animVars, staticVars>>

\* load_economic_data() is called with no live entry: the body runs and its
\* result is stored
CallFetch ==
    /\ Len(call_log) < MaxCalls
    /\ \E d \in Delays, span \in CacheSpans :
          /\ clock' = clock + d
          /\ CacheMiss(clock')
          /\ response' = FredResponse([first |-> 0, span |-> span, holes |-> {},
                                       every |-> 1], trend)
          /\ data' = load_economic_data(response')
          /\ cache' = << [value |-> data', expires |-> clock' + TTL] >>
          /\ fetch_log' = Append(fetch_log, clock')
          /\ call_log' = Append(call_log,
                [at |-> clock', fetched |-> TRUE, ok |-> TRUE, value |-> data'])
    /\ raised' = ""
    /\ UNCHANGED <<pc, trend, animVars, staticVars>>

\* load_economic_data() is called with no live entry and the provider call
\* fails: the exception leaves the function, nothing is stored
CallFetchFails ==
    /\ Len(call_log) < MaxCalls
    /\ \E d \in Delays :
          /\ clock' = clock + d
          /\ CacheMiss(clock')
          /\ fetch_log' = Append(fetch_log, clock')
          /\ call_log' = Append(call_log,
                [at |-> clock', fetched |-> TRUE, ok |-> FALSE, value |-> NoFrame])
    /\ raised' = "RemoteDataError"
    /\ UNCHANGED <<pc, trend, response, data, cache, animVars, staticVars>>

CacheNext == CallHit \/ CallFetch \/ CallFetchFails

CacheSpec == CacheInit /\ [][CacheNext]_vars

\* the calls before call k whose fetch populated the cache
Populating(k) == {j \in 1..(k - 1) : call_log[j].fetched /\ call_log[j].ok}

Latest(S) == CHOOSE j \in S : \A j2 \in S : j2 <= j

\* C8: a call made less than 24 hours after the fetch that populated the cache
\* performs no fetch and returns the cached table; any other call fetches; so no
\* two fetches lie within 24 hours of a fetch that populated the cache.
C8_OneFetchPerTtl ==
    /\ \A k \in 1..Len(call_log) :
          LET P == Populating(k)
          IN  IF P # {} /\ call_log[k].at - call_log[Latest(P)].at < 24 * 3600
              THEN /\ ~call_log[k].fetched
                   /\ call_log[k].value = call_log[Latest(P)].value
              ELSE call_log[k].fetched
    /\ Len(fetch_log) = Cardinality({k \in 1..Len(call_log) : call_log[k].fetched})
    /\ \A k \in 1..Len(call_log) :
          call_log[k].fetched => \E f \in 1..Len(fetch_log) : fetch_log[f] = call_log[k].at
    /\ \A j, k \in 1..Len(call_log) :
          (j < k /\ call_log[j].fetched /\ call_log[j].ok /\ call_log[k].fetched)
              => call_log[k].at - call_log[j].at >= 24 * 3600

\* a fetch, a call served from the cache, and a refetch exactly at expiry that
\* brought a different table
C8_Witness ==
    /\ Len(call_log) >= 3
    /\ \E j, h, k \in 1..Len(call_log) :
          /\ j < h /\ h < k
          /\ call_log[j].fetched /\ call_log[j].ok
          /\ ~call_log[h].fetched
          /\ call_log[k].fetched /\ call_log[k].ok
          /\ call_log[k].at - call_log[j].at = 24 * 3600
          /\ call_log[k].value # call_log[j].value

====
